---- MODULE Spec2Model ----
(***************************************************************************)
(* Model of crates/arroyo-bin/src/main.rs: the bootstrap of the arroyo     *)
(* binary.  One process run executes one CLI command; the migration        *)
(* ledger and the database condition live outside the process and survive  *)
(* it, so a run can be followed by another run (Restart).                  *)
(*                                                                         *)
(* Time is the process clock in milliseconds.  Timers (the 500ms backoff   *)
(* sleep, the --wait deadline) fire at their exact time: the clock cannot  *)
(* pass a pending timer.                                                   *)
(***************************************************************************)
EXTENDS Integers, Sequences, FiniteSets, TLC

\* ------------------------------------------------------------------ bounds
MaxWait == 2          \* largest --wait value tried, in seconds
TickMs == 250         \* largest clock step, in milliseconds
NumMigrations == 2    \* number of embedded migration definitions
MaxRuns == 2          \* process runs against the same database
ServiceTicks == 2     \* clock steps a service or runner run is followed for, timers apart

\* --------------------------------------------------------- program constants
BackoffMs == 500      \* Duration::from_millis(500)

MsPerSec == 1000      \* Duration::from_secs counts seconds; the clock counts ms

GraceSecs == 30       \* wait_for_shutdown(Duration::from_secs(30))

VARIABLES
    command,    \* the CLI subcommand of this process run
    wait,       \* Migrate { wait: Option<u32> }: [some |-> BOOLEAN, secs |-> Nat]
    pc,         \* position of the main task
    now,        \* process clock, ms
    db,         \* condition of the database: what an attempt completing now meets
    upSince,    \* clock value since which db has been "up" (0 when it is not)
    attempts,   \* connection attempts started by connect() in this run
    results,    \* results of the completed attempts, oldest first
    started,    \* clock value at which the attempt in flight was started
    wake,       \* clock value at which the backoff sleep ends
    slept,      \* number of backoff sleeps begun in this run
    result,     \* how migrate() ended: "none" while it has not
    finishedAt, \* clock value at which the connect phase ended
    exitCode,   \* exit code of the process, meaningful when pc = "exited"
    ledger,     \* persisted: versions recorded as applied, in order of application
    recorded,   \* runner: the ledger as it stood when run_async was called
    todo,       \* runner: migrations still to apply in this batch
    attempted,  \* runner: versions whose application was attempted in this run
    applied,    \* runner: report.applied_migrations() of this run
    run,        \* index of this process run
    history,    \* one record per finished run of the migration runner
    pools,      \* connection pools created by this process
    pool,       \* the handle start_control_plane holds: 0 before db_pool() returns
    clusterId,  \* set_cluster_id has published the cluster identity
    shutdown,   \* name given to Shutdown::new, "none" before
    units,      \* units started: [name, via, pool] (pool 0: started without a pool)
    guards,     \* names registered with shutdown.guard
    sstate,     \* ShutdownState of the coordinator, "none" before Shutdown::new
    token,      \* the shared cancellation token is cancelled
    cause,      \* what requested the cancellation: "none", "task_failed", "signal"
    failed,     \* names of the started units that reported failure
    done,       \* names of the started units that ended after the cancellation
    cancelAt,   \* clock value of the transition to CancelRequested
    waitAt,     \* clock value at which wait_for_shutdown was called
    graceEnd,   \* clock value at which the grace timer fires
    returnedAt, \* clock value at which wait_for_shutdown returned
    reports,    \* errors reported by this process: [kind, parts of the message]
    connection  \* the connection driven by the task migrate() spawns: none, open, closed

vars == <<command, wait, pc, now, db, upSince, attempts, results, started, wake,
          slept, result, finishedAt, exitCode, ledger, recorded, todo, attempted,
          applied,
          run, history, pools, pool, clusterId, shutdown, units, guards, sstate,
          token, cause, failed, done, cancelAt, waitAt, graceEnd, returnedAt,
          reports, connection>>

connectVars == <<attempts, results, started, wake, slept, finishedAt, connection>>
runnerVars == <<ledger, recorded, todo, attempted, applied>>
envVars == <<db, upSince>>
serviceVars == <<pools, pool, clusterId, shutdown, units, guards>>
coordVars == <<sstate, token, cause, failed, done, cancelAt, waitAt, graceEnd, returnedAt>>

\* ------------------------------------------------------------------ helpers
Min(S) == CHOOSE x \in S : \A y \in S : x <= y

Max(S) == CHOOSE x \in S : \A y \in S : x >= y

SeqToSet(s) == {s[i] : i \in 1..Len(s)}

\* enum Commands
Commands == {"api", "controller", "cluster", "worker", "compiler", "node", "migrate"}

\* Option<u32> values of --wait that are tried
WaitValues == {[some |-> FALSE, secs |-> 0]} \cup {[some |-> TRUE, secs |-> s] : s \in 0..MaxWait}

\* the clock stops once every deadline that can be set has passed by a backoff
MaxTimeMs == MaxWait * MsPerSec + BackoffMs

\* what the database can answer to a connection attempt
DbConditions == {"up", "refused", "auth", "hba"}

\* e.to_string() of the tokio_postgres error met under each failing condition,
\* as the sequence of its characters
to_string(e) ==
    CASE e = "refused" ->
           <<"e", "r", "r", "o", "r", " ", "c", "o", "n", "n", "e", "c", "t", "i", "n",
           "g", " ", "t", "o", " ", "s", "e", "r", "v", "e", "r", ":", " ", "C", "o",
           "n", "n", "e", "c", "t", "i", "o", "n", " ", "r", "e", "f", "u", "s", "e",
           "d">>
      [] e = "auth" ->
           <<"d", "b", " ", "e", "r", "r", "o", "r", ":", " ", "F", "A", "T", "A", "L",
           ":", " ", "p", "a", "s", "s", "w", "o", "r", "d", " ", "a", "u", "t", "h",
           "e", "n", "t", "i", "c", "a", "t", "i", "o", "n", " ", "f", "a", "i", "l",
           "e", "d", " ", "f", "o", "r", " ", "u", "s", "e", "r">>
      [] e = "hba" ->
           <<"d", "b", " ", "e", "r", "r", "o", "r", ":", " ", "F", "A", "T", "A", "L",
           ":", " ", "n", "o", " ", "p", "g", "_", "h", "b", "a", ".", "c", "o", "n",
           "f", " ", "e", "n", "t", "r", "y", " ", "f", "o", "r", " ", "h", "o", "s",
           "t">>

\* str::contains: pat occurs in text as a substring, at any character offset
contains(text, pat) ==
    \E i \in 1..(Len(text) - Len(pat) + 1) : SubSeq(text, i, i + Len(pat) - 1) = pat

\* the pattern connect() searches for: "authentication"
authentication ==
    <<"a", "u", "t", "h", "e", "n", "t", "i", "c", "a", "t", "i", "o", "n">>

\* the classification of connect(): e.to_string().contains("authentication")
is_authentication(e) == contains(to_string(e), authentication)

\* mutants of should_retry: the authentication test dropped, the retry flag
\* dropped, the authentication test inverted
should_retry_any_error(e, r) == r

should_retry_without_flag(e, r) == ~is_authentication(e)

should_retry_inverted(e, r) == is_authentication(e) /\ r

\* !e.to_string().contains("authentication") && retry
should_retry(e, r) == ~is_authentication(e) /\ r

\* the result of one completed attempt, as recorded in results
Classify(e) == IF is_authentication(e) THEN "auth" ELSE "transient"

\* migrate(): Some(wait) calls connect(true) under a timeout, None calls connect(false)
retry == wait.some

\* mutant of deadline: Duration::from_millis in place of from_secs
deadline_from_millis == wait.secs

\* Duration::from_secs(wait as u64)
deadline == wait.secs * MsPerSec

\* mutant of main_exit_code: the exit(1) left out
main_exit_code_always_zero(res) == 0

\* main(): Err(e) => { error!(..); exit(1) }, otherwise main returns
main_exit_code(res) == IF res = "ok" THEN 0 ELSE 1

\* mod migrations: the embedded definitions, by version
migrations == 1..NumMigrations

Sorted(S) ==
    LET RECURSIVE Build(_)
        Build(T) == IF T = {} THEN <<>> ELSE <<Min(T)>> \o Build(T \ {Min(T)})
    IN Build(S)

\* mutants of to_be_applied: the ledger ignored, the highest recorded version
\* taken again
to_be_applied_all(led) == Sorted(migrations)

to_be_applied_from_current(led) ==
    LET current == IF led = <<>> THEN 0 ELSE Max(SeqToSet(led))
    IN Sorted({v \in migrations : v >= current /\ v > 0})

\* the runner's batch: versions above the highest recorded one, ascending
to_be_applied(led) ==
    LET current == IF led = <<>> THEN 0 ELSE Max(SeqToSet(led))
    IN Sorted({v \in migrations : v > current})

\* enum CPService, by CPService::name(), as main() maps the commands to it
CPServices == {"api", "compiler", "controller", "cluster"}

\* exit status of a process whose main task panicked
PanicExitCode == 101

\* the service unit conditions of start_control_plane
starts_api(service) == service = "api" \/ service = "cluster"

\* mutant of starts_compiler: the All case left out
starts_compiler_alone(service) == service = "compiler"

starts_compiler(service) == service = "compiler" \/ service = "cluster"

starts_controller(service) == service = "controller" \/ service = "cluster"

\* what each report's format string puts into the message: the database
\* target ({} of the DatabaseConfig), the underlying cause (the error met),
\* or, for the timeout, only the Elapsed of tokio ("deadline has elapsed")
message(kind) ==
    CASE kind = "connect_error" -> {"target", "cause"}
      [] kind = "timeout" -> {"elapsed"}
      [] kind = "migration_error" -> {"target", "cause"}
      [] kind = "pool_error" -> {"target", "cause"}
      [] kind = "connection_error" -> {"target", "cause"}
      [] kind = "panic" -> {"cause"}
      [] kind = "connection_task" -> {"cause"}
      [] kind = "worker_start" -> {"cause"}

\* error!(..) (or the panic message) written once
Report(kind) == Append(reports, [kind |-> kind, parts |-> message(kind)])

\* the process ends without migrate() having run (exit(1), a panic)
Exit(code, res) ==
    /\ pc' = "exited"
    /\ result' = res
    /\ exitCode' = code
    /\ reports' = Report(res)
    /\ UNCHANGED history

\* ------------------------------------------------------------------ exit
\* migrate() returns res to main(): on Ok main returns and the process ends;
\* on Err main writes error!("{}", e) and is about to call exit(1)
Finish(res) ==
    /\ result' = res
    /\ IF res = "ok"
       THEN /\ pc' = "exited"
            /\ exitCode' = main_exit_code(res)
            /\ UNCHANGED reports
       ELSE /\ pc' = "exiting"
            /\ reports' = Report(res)
            /\ UNCHANGED exitCode
    /\ history' = IF res \in {"ok", "migration_error"}
                  THEN Append(history, [result |-> res, before |-> recorded,
                                        applied |-> applied, ledger |-> ledger])
                  ELSE history

Init ==
    /\ command \in Commands
    /\ wait \in WaitValues
    /\ (command # "migrate" => ~wait.some)
    /\ pc = "main"
    /\ now = 0
    /\ db \in DbConditions
    /\ upSince = 0
    /\ attempts = 0
    /\ results = <<>>
    /\ started = 0
    /\ wake = 0
    /\ slept = 0
    /\ result = "none"
    /\ finishedAt = 0
    /\ connection = "none"
    /\ exitCode = 0
    /\ ledger = <<>>
    /\ recorded = <<>>
    /\ todo = <<>>
    /\ attempted = <<>>
    /\ applied = <<>>
    /\ run = 1
    /\ history = <<>>
    /\ pools = 0
    /\ pool = 0
    /\ clusterId = FALSE
    /\ shutdown = "none"
    /\ units = {}
    /\ guards = {}
    /\ sstate = "none"
    /\ token = FALSE
    /\ cause = "none"
    /\ failed = {}
    /\ done = {}
    /\ cancelAt = 0
    /\ waitAt = 0
    /\ graceEnd = 0
    /\ returnedAt = 0
    /\ reports = <<>>

\* ------------------------------------------------------------------ migrate
\* main -> migrate(wait): connect(wait.is_some()) issues its first attempt
main_migrate ==
    /\ pc = "main"
    /\ command = "migrate"
    /\ pc' = "attempting"
    /\ attempts' = 1
    /\ started' = now
    /\ UNCHANGED <<command, wait, now, results, wake, slept, result, finishedAt,
                   exitCode, run, history, reports>>
    /\ UNCHANGED connection
    /\ UNCHANGED runnerVars
    /\ UNCHANGED envVars
    /\ UNCHANGED serviceVars
    /\ UNCHANGED coordVars

\* connect(): Ok(r) => return Ok(r); migrate() spawns the task that drives
\* the connection: tokio::spawn(async move { connection.await .. })
connect_Ok ==
    /\ pc = "attempting"
    /\ now > started
    /\ db = "up"
    /\ results' = Append(results, "ok")
    /\ finishedAt' = now
    /\ connection' = "open"
    /\ pc' = "connected"
    /\ UNCHANGED <<command, wait, now, attempts, started, wake, slept, result,
                   exitCode, run, history, reports>>
    /\ UNCHANGED runnerVars
    /\ UNCHANGED envVars
    /\ UNCHANGED serviceVars
    /\ UNCHANGED coordVars

\* connect(): Err(e) => sleep 500ms and continue, or bail!; the bail goes
\* through `?` in migrate() to main(), which logs and exits
connect_Err ==
    /\ pc = "attempting"
    /\ now > started
    /\ db # "up"
    /\ results' = Append(results, Classify(db))
    /\ IF should_retry(db, retry)
       THEN /\ pc' = "sleeping"
            /\ wake' = now + BackoffMs
            /\ slept' = slept + 1
            /\ UNCHANGED <<result, finishedAt, exitCode, history, reports>>
       ELSE /\ finishedAt' = now
            /\ Finish("connect_error")
            /\ UNCHANGED <<wake, slept>>
    /\ UNCHANGED <<command, wait, now, attempts, started, run>>
    /\ UNCHANGED connection
    /\ UNCHANGED runnerVars
    /\ UNCHANGED envVars
    /\ UNCHANGED serviceVars
    /\ UNCHANGED coordVars

\* connect(): the sleep is over, `continue` issues the next attempt
connect_continue ==
    /\ pc = "sleeping"
    /\ now >= wake
    /\ pc' = "attempting"
    /\ attempts' = attempts + 1
    /\ started' = now
    /\ UNCHANGED <<command, wait, now, results, wake, slept, result, finishedAt,
                   exitCode, run, history, reports>>
    /\ UNCHANGED connection
    /\ UNCHANGED runnerVars
    /\ UNCHANGED envVars
    /\ UNCHANGED serviceVars
    /\ UNCHANGED coordVars

\* the inner future of timeout() is pending: an attempt is in flight or the
\* sleep has not ended (timeout polls the inner future before its own timer)
ConnectPending == pc = "attempting" \/ (pc = "sleeping" /\ now < wake)

\* migrate() with the timeout wrapped around the connect and the runner
\* together: the deadline also fires while the migrations are being run
timeout_elapsed_over_runner ==
    /\ retry
    /\ ConnectPending \/ pc \in {"connected", "migrating"}
    /\ now >= deadline
    /\ finishedAt' = now
    /\ Finish("timeout")
    /\ UNCHANGED <<command, wait, now, attempts, results, started, wake, slept, run>>
    /\ UNCHANGED connection
    /\ UNCHANGED runnerVars
    /\ UNCHANGED envVars
    /\ UNCHANGED serviceVars
    /\ UNCHANGED coordVars

\* timeout(Duration::from_secs(wait), connect(true)) elapses: connect is
\* dropped, map_err builds the timeout error, `?` returns it to main()
timeout_elapsed ==
    /\ retry
    /\ ConnectPending
    /\ now >= deadline
    /\ finishedAt' = now
    /\ Finish("timeout")
    /\ UNCHANGED <<command, wait, now, attempts, results, started, wake, slept, run>>
    /\ UNCHANGED connection
    /\ UNCHANGED runnerVars
    /\ UNCHANGED envVars
    /\ UNCHANGED serviceVars
    /\ UNCHANGED coordVars

\* runner().run_async(&mut client) reads the ledger and computes its batch, or
\* fails before any migration (its ledger query fails, as it always does on a
\* closed connection, or the ledger is rejected): map_err + `?` return the error
run_async ==
    /\ pc = "connected"
    /\ recorded' = ledger
    /\ \E ok \in {b \in BOOLEAN : b => connection = "open"} :
       IF ok
       THEN /\ pc' = "migrating"
            /\ todo' = to_be_applied(ledger)
            /\ UNCHANGED <<result, exitCode, history, reports>>
       ELSE /\ pc' = "exiting"
            /\ result' = "migration_error"
            /\ reports' = Report("migration_error")
            /\ UNCHANGED exitCode
            /\ history' = Append(history, [result |-> "migration_error", before |-> ledger,
                                           applied |-> applied, ledger |-> ledger])
            /\ UNCHANGED todo
    /\ UNCHANGED <<command, wait, now, run, ledger, attempted, applied>>
    /\ UNCHANGED connectVars
    /\ UNCHANGED envVars
    /\ UNCHANGED serviceVars
    /\ UNCHANGED coordVars

\* the runner applies the next migration of its batch and records it, or the
\* migration fails (it always does on a closed connection): map_err + `?`
\* return the error to main()
apply_migration ==
    /\ pc = "migrating"
    /\ todo # <<>>
    /\ attempted' = Append(attempted, Head(todo))
    /\ \E ok \in {b \in BOOLEAN : b => connection = "open"} :
         IF ok
         THEN /\ ledger' = Append(ledger, Head(todo))
              /\ applied' = Append(applied, Head(todo))
              /\ todo' = Tail(todo)
              /\ UNCHANGED <<pc, result, exitCode, history, reports>>
         ELSE /\ UNCHANGED <<ledger, applied, todo>>
              /\ Finish("migration_error")
    /\ UNCHANGED <<command, wait, now, run, recorded>>
    /\ UNCHANGED connectVars
    /\ UNCHANGED envVars
    /\ UNCHANGED serviceVars
    /\ UNCHANGED coordVars

\* migrate() measuring the whole run against --wait: a batch that is done
\* after the deadline is turned into the timeout error
migrate_Ok_checks_deadline ==
    /\ pc = "migrating"
    /\ todo = <<>>
    /\ IF retry /\ now >= deadline THEN Finish("timeout") ELSE Finish("ok")
    /\ UNCHANGED <<command, wait, now, run>>
    /\ UNCHANGED connectVars
    /\ UNCHANGED runnerVars
    /\ UNCHANGED envVars
    /\ UNCHANGED serviceVars
    /\ UNCHANGED coordVars

\* the connection ends with an error (the server closed it, the socket
\* failed): connection.await of the spawned task becomes ready with Err(e), and
\* the client answers every query from now on with an error
connection_closed ==
    /\ pc \in {"connected", "migrating"}
    /\ connection = "open"
    /\ connection' = "closed"
    /\ UNCHANGED <<command, wait, pc, now, result, exitCode, run, history, reports>>
    /\ UNCHANGED <<attempts, results, started, wake, slept, finishedAt>>
    /\ UNCHANGED runnerVars
    /\ UNCHANGED envVars
    /\ UNCHANGED serviceVars
    /\ UNCHANGED coordVars

\* the spawned task has written its line
TaskReported == \E i \in 1..Len(reports) : reports[i].kind = "connection_task"

\* the task spawned by migrate() is scheduled after connection.await returned
\* Err(e): eprintln!("connection error: {}", e). It runs on its own, next to
\* main: before the runner meets the closed connection, after it, after
\* main's error! line, or not at all when exit(1) comes first
connection_Err ==
    /\ pc \in {"connected", "migrating", "exiting"}
    /\ connection = "closed"
    /\ ~TaskReported
    /\ reports' = Report("connection_task")
    /\ UNCHANGED <<command, wait, pc, now, result, exitCode, run, history>>
    /\ UNCHANGED connectVars
    /\ UNCHANGED runnerVars
    /\ UNCHANGED envVars
    /\ UNCHANGED serviceVars
    /\ UNCHANGED coordVars

\* main(): exit(1) after the error line
main_exit ==
    /\ pc = "exiting"
    /\ pc' = "exited"
    /\ exitCode' = main_exit_code(result)
    /\ UNCHANGED <<command, wait, now, result, run, history, reports>>
    /\ UNCHANGED connectVars
    /\ UNCHANGED runnerVars
    /\ UNCHANGED envVars
    /\ UNCHANGED serviceVars
    /\ UNCHANGED coordVars

\* the batch is done: the report is logged, migrate() returns Ok(()), main returns
migrate_Ok ==
    /\ pc = "migrating"
    /\ todo = <<>>
    /\ Finish("ok")
    /\ UNCHANGED <<command, wait, now, run>>
    /\ UNCHANGED connectVars
    /\ UNCHANGED runnerVars
    /\ UNCHANGED envVars
    /\ UNCHANGED serviceVars
    /\ UNCHANGED coordVars

\* ------------------------------------------------------------------ db_pool
\* mutant of create_pool: the admin task spawned before db_pool() is called
create_pool_after_admin ==
    /\ pc = "main"
    /\ command \in CPServices
    /\ units' = units \cup {[name |-> "admin", via |-> "spawn_task", pool |-> 0]}
    /\ pools' = pools + 1
    /\ pc' = "pool_get"
    /\ UNCHANGED <<command, wait, now, run, pool, clusterId, shutdown, guards, result,
                   exitCode, history, reports>>
    /\ UNCHANGED connectVars
    /\ UNCHANGED runnerVars
    /\ UNCHANGED envVars
    /\ UNCHANGED coordVars

\* main -> start_control_plane(service) -> db_pool(): cfg.create_pool(..), or
\* error! and exit(1)
create_pool ==
    /\ pc = "main"
    /\ command \in CPServices
    /\ \E ok \in BOOLEAN :
         IF ok
         THEN /\ pools' = pools + 1
              /\ pc' = "pool_get"
              /\ UNCHANGED <<result, exitCode, history, reports>>
         ELSE /\ Exit(1, "pool_error")
              /\ UNCHANGED pools
    /\ UNCHANGED <<command, wait, now, run, pool, clusterId, shutdown, units, guards>>
    /\ UNCHANGED connectVars
    /\ UNCHANGED runnerVars
    /\ UNCHANGED envVars
    /\ UNCHANGED coordVars

\* db_pool(): pool.get().await, or error! and exit(1)
pool_get ==
    /\ pc = "pool_get"
    /\ IF db = "up"
       THEN /\ pc' = "query_one"
            /\ UNCHANGED <<result, exitCode, history, reports>>
       ELSE Exit(1, "connection_error")
    /\ UNCHANGED <<command, wait, now, run>>
    /\ UNCHANGED connectVars
    /\ UNCHANGED runnerVars
    /\ UNCHANGED envVars
    /\ UNCHANGED serviceVars
    /\ UNCHANGED coordVars

\* db_pool() with the Err arm of the identity query logging and going on: the
\* pool is returned without a cluster id having been published
query_one_ignoring_error ==
    /\ pc = "query_one"
    /\ \E ok \in BOOLEAN :
         /\ clusterId' = ok
         /\ pool' = pools
         /\ pc' = "shutdown_new"
         /\ UNCHANGED <<result, exitCode, history, reports>>
    /\ UNCHANGED <<command, wait, now, run, pools, shutdown, units, guards>>
    /\ UNCHANGED connectVars
    /\ UNCHANGED runnerVars
    /\ UNCHANGED envVars
    /\ UNCHANGED coordVars

\* db_pool(): query_one("select id from cluster_info"): Ok publishes the
\* cluster id and returns the pool, Err panics
query_one ==
    /\ pc = "query_one"
    /\ \E ok \in BOOLEAN :
         IF ok
         THEN /\ clusterId' = TRUE
              /\ pool' = pools
              /\ pc' = "shutdown_new"
              /\ UNCHANGED <<result, exitCode, history, reports>>
         ELSE /\ Exit(PanicExitCode, "panic")
              /\ UNCHANGED <<clusterId, pool>>
    /\ UNCHANGED <<command, wait, now, run, pools, shutdown, units, guards>>
    /\ UNCHANGED connectVars
    /\ UNCHANGED runnerVars
    /\ UNCHANGED envVars
    /\ UNCHANGED coordVars

\* ------------------------------------------------------ start_control_plane
\* log_event(..); Shutdown::new(service.name())
cp_shutdown_new ==
    /\ pc = "shutdown_new"
    /\ shutdown' = command
    /\ pc' = "cp_admin"
    /\ UNCHANGED <<command, wait, now, result, exitCode, run, history, reports, pools, pool,
                   clusterId, units, guards>>
    /\ UNCHANGED connectVars
    /\ UNCHANGED runnerVars
    /\ UNCHANGED envVars
    /\ sstate' = "Running"
    /\ UNCHANGED <<token, cause, failed, done, cancelAt, waitAt, graceEnd, returnedAt>>

\* shutdown.spawn_task("admin", start_admin_server(service.name(), ports::API_ADMIN))
cp_admin ==
    /\ pc = "cp_admin"
    /\ units' = units \cup {[name |-> "admin", via |-> "spawn_task", pool |-> 0]}
    /\ pc' = "cp_api"
    /\ UNCHANGED <<command, wait, now, result, exitCode, run, history, reports, pools, pool,
                   clusterId, shutdown, guards>>
    /\ UNCHANGED connectVars
    /\ UNCHANGED runnerVars
    /\ UNCHANGED envVars
    /\ UNCHANGED coordVars

\* mutant of cp_api: the api unit is given a pool of its own
cp_api_own_pool ==
    /\ pc = "cp_api"
    /\ IF starts_api(command)
       THEN /\ pools' = pools + 1
            /\ units' = units \cup {[name |-> "api", via |-> "spawn_task", pool |-> pools + 1]}
       ELSE UNCHANGED <<pools, units>>
    /\ pc' = "cp_compiler"
    /\ UNCHANGED <<command, wait, now, result, exitCode, run, history, reports, pool,
                   clusterId, shutdown, guards>>
    /\ UNCHANGED connectVars
    /\ UNCHANGED runnerVars
    /\ UNCHANGED envVars
    /\ UNCHANGED coordVars

\* if Api || All: shutdown.spawn_task("api", arroyo_api::start_server(pool.clone()))
cp_api ==
    /\ pc = "cp_api"
    /\ units' = IF starts_api(command)
                THEN units \cup {[name |-> "api", via |-> "spawn_task", pool |-> pool]}
                ELSE units
    /\ pc' = "cp_compiler"
    /\ UNCHANGED <<command, wait, now, result, exitCode, run, history, reports, pools, pool,
                   clusterId, shutdown, guards>>
    /\ UNCHANGED connectVars
    /\ UNCHANGED runnerVars
    /\ UNCHANGED envVars
    /\ UNCHANGED coordVars

\* if Compiler || All: shutdown.spawn_task("compiler", start_service())
cp_compiler ==
    /\ pc = "cp_compiler"
    /\ units' = IF starts_compiler(command)
                THEN units \cup {[name |-> "compiler", via |-> "spawn_task", pool |-> 0]}
                ELSE units
    /\ pc' = "cp_controller"
    /\ UNCHANGED <<command, wait, now, result, exitCode, run, history, reports, pools, pool,
                   clusterId, shutdown, guards>>
    /\ UNCHANGED connectVars
    /\ UNCHANGED runnerVars
    /\ UNCHANGED envVars
    /\ UNCHANGED coordVars

\* if Controller || All: ControllerServer::new(pool).await is pending for longer
\* than the grace period, while the tasks spawned before it run
controller_new_slow ==
    /\ pc = "cp_controller"
    /\ starts_controller(command)
    /\ now < GraceSecs * MsPerSec
    /\ now' = now + GraceSecs * MsPerSec + TickMs
    /\ UNCHANGED <<command, wait, pc, result, exitCode, run, history, reports>>
    /\ UNCHANGED connectVars
    /\ UNCHANGED runnerVars
    /\ UNCHANGED envVars
    /\ UNCHANGED serviceVars
    /\ UNCHANGED coordVars

\* if Controller || All: ControllerServer::new(pool).await.start(shutdown.guard("controller"));
\* then wait_for_shutdown is entered
cp_controller ==
    /\ pc = "cp_controller"
    /\ IF starts_controller(command)
       THEN /\ units' = units \cup {[name |-> "controller", via |-> "guard", pool |-> pool]}
            /\ guards' = guards \cup {"controller"}
       ELSE UNCHANGED <<units, guards>>
    /\ pc' = "wait_for_shutdown"
    /\ UNCHANGED <<command, wait, now, result, exitCode, run, history, reports, pools, pool,
                   clusterId, shutdown>>
    /\ UNCHANGED connectVars
    /\ UNCHANGED runnerVars
    /\ UNCHANGED envVars
    /\ waitAt' = now
    /\ UNCHANGED <<sstate, token, cause, failed, done, cancelAt, graceEnd, returnedAt>>

\* ------------------------------------------------------------- start_worker
\* start_worker building the server without a guard of the coordinator
worker_from_env_without_guard ==
    /\ pc = "main"
    /\ command = "worker"
    /\ shutdown' = "worker"
    /\ pc' = "worker_admin"
    /\ UNCHANGED <<command, wait, now, result, exitCode, run, history, reports, pools, pool,
                   clusterId, units, guards>>
    /\ UNCHANGED connectVars
    /\ UNCHANGED runnerVars
    /\ UNCHANGED envVars
    /\ sstate' = "Running"
    /\ UNCHANGED <<token, cause, failed, done, cancelAt, waitAt, graceEnd, returnedAt>>

\* Shutdown::new("worker"); WorkerServer::from_env(shutdown.guard("worker"))
worker_from_env ==
    /\ pc = "main"
    /\ command = "worker"
    /\ shutdown' = "worker"
    /\ guards' = guards \cup {"worker"}
    /\ pc' = "worker_admin"
    /\ UNCHANGED <<command, wait, now, result, exitCode, run, history, reports, pools, pool,
                   clusterId, units>>
    /\ UNCHANGED connectVars
    /\ UNCHANGED runnerVars
    /\ UNCHANGED envVars
    /\ sstate' = "Running"
    /\ UNCHANGED <<token, cause, failed, done, cancelAt, waitAt, graceEnd, returnedAt>>

\* shutdown.spawn_task("admin", start_admin_server("worker", 0))
worker_admin ==
    /\ pc = "worker_admin"
    /\ units' = units \cup {[name |-> "admin", via |-> "spawn_task", pool |-> 0]}
    /\ pc' = "worker_spawn"
    /\ UNCHANGED <<command, wait, now, result, exitCode, run, history, reports, pools, pool,
                   clusterId, shutdown, guards>>
    /\ UNCHANGED connectVars
    /\ UNCHANGED runnerVars
    /\ UNCHANGED envVars
    /\ UNCHANGED coordVars

\* tokio::spawn(async move { server.start_async().await .. }); then
\* wait_for_shutdown is entered
worker_spawn ==
    /\ pc = "worker_spawn"
    /\ units' = units \cup {[name |-> "worker", via |-> "tokio_spawn", pool |-> 0]}
    /\ pc' = "wait_for_shutdown"
    /\ UNCHANGED <<command, wait, now, result, exitCode, run, history, reports, pools, pool,
                   clusterId, shutdown, guards>>
    /\ UNCHANGED connectVars
    /\ UNCHANGED runnerVars
    /\ UNCHANGED envVars
    /\ waitAt' = now
    /\ UNCHANGED <<sstate, token, cause, failed, done, cancelAt, graceEnd, returnedAt>>

\* --------------------------------------------------------------- start_node
\* Shutdown::new("node"); arroyo_node::start_server(shutdown.guard("node")).await
node_start_server ==
    /\ pc = "main"
    /\ command = "node"
    /\ shutdown' = "node"
    /\ guards' = guards \cup {"node"}
    /\ units' = units \cup {[name |-> "node", via |-> "guard", pool |-> 0]}
    /\ pc' = "node_admin"
    /\ UNCHANGED <<command, wait, now, result, exitCode, run, history, reports, pools, pool,
                   clusterId>>
    /\ UNCHANGED connectVars
    /\ UNCHANGED runnerVars
    /\ UNCHANGED envVars
    /\ sstate' = "Running"
    /\ UNCHANGED <<token, cause, failed, done, cancelAt, waitAt, graceEnd, returnedAt>>

\* start_node calling wait_for_shutdown first and spawning the admin task
\* while the wait is in progress
node_admin_after_wait ==
    /\ \/ /\ pc = "node_admin"
          /\ pc' = "wait_for_shutdown"
          /\ waitAt' = now
          /\ UNCHANGED units
       \/ /\ pc = "wait_for_shutdown"
          /\ command = "node"
          /\ "admin" \notin {u.name : u \in units}
          /\ units' = units \cup {[name |-> "admin", via |-> "spawn_task", pool |-> 0]}
          /\ UNCHANGED <<pc, waitAt>>
    /\ UNCHANGED <<command, wait, now, result, exitCode, run, history, reports, pools, pool,
                   clusterId, shutdown, guards>>
    /\ UNCHANGED connectVars
    /\ UNCHANGED runnerVars
    /\ UNCHANGED envVars
    /\ UNCHANGED <<sstate, token, cause, failed, done, cancelAt, graceEnd, returnedAt>>

\* shutdown.spawn_task("admin", start_admin_server("worker", 0)); then
\* wait_for_shutdown is entered
node_admin ==
    /\ pc = "node_admin"
    /\ units' = units \cup {[name |-> "admin", via |-> "spawn_task", pool |-> 0]}
    /\ pc' = "wait_for_shutdown"
    /\ UNCHANGED <<command, wait, now, result, exitCode, run, history, reports, pools, pool,
                   clusterId, shutdown, guards>>
    /\ UNCHANGED connectVars
    /\ UNCHANGED runnerVars
    /\ UNCHANGED envVars
    /\ waitAt' = now
    /\ UNCHANGED <<sstate, token, cause, failed, done, cancelAt, graceEnd, returnedAt>>

\* the grace period read as milliseconds: Duration::from_millis(30)
grace_from_millis == GraceSecs

\* ------------------------------------------------------- ShutdownCoordinator
\* the grace period every caller passes to wait_for_shutdown
grace == GraceSecs * MsPerSec

\* the coordinator's registered set: the spawn_task tasks and the guards
Registered == {u.name : u \in {v \in units : v.via = "spawn_task"}} \cup guards

\* the started units that have not ended
Active == {u.name : u \in units} \ (failed \cup done)

\* a cancellation that sends the coordinator back to CancelRequested from
\* whatever state it is in
Cancel_from_any_state(why) ==
    /\ token' = TRUE
    /\ sstate' = "CancelRequested"
    /\ cause' = why
    /\ cancelAt' = now

\* the token is cancelled; a Running coordinator becomes CancelRequested
Cancel(why) ==
    /\ token' = TRUE
    /\ IF sstate = "Running"
       THEN /\ sstate' = "CancelRequested"
            /\ cause' = why
            /\ cancelAt' = now
       ELSE UNCHANGED <<sstate, cause, cancelAt>>

\* a unit started with spawn_task or holding a guard fails (error return or
\* unexpected termination): the coordinator cancels the token
task_failed ==
    /\ pc # "exited"
    /\ \E u \in units :
         /\ u.name \in Active
         /\ u.via # "tokio_spawn"
         /\ failed' = failed \cup {u.name}
    /\ Cancel("task_failed")
    /\ UNCHANGED <<command, wait, pc, now, result, exitCode, run, history, reports,
                   done, waitAt, graceEnd, returnedAt>>
    /\ UNCHANGED connectVars
    /\ UNCHANGED runnerVars
    /\ UNCHANGED envVars
    /\ UNCHANGED serviceVars

\* start_worker without `token.cancel()`: the failure is logged and nothing more
worker_start_failed_without_cancel ==
    /\ pc # "exited"
    /\ \E u \in units :
         /\ u.name \in Active
         /\ u.via = "tokio_spawn"
         /\ failed' = failed \cup {u.name}
    /\ reports' = Report("worker_start")
    /\ UNCHANGED <<command, wait, pc, now, result, exitCode, run, history,
                   done, waitAt, graceEnd, returnedAt, token, sstate, cause, cancelAt>>
    /\ UNCHANGED connectVars
    /\ UNCHANGED runnerVars
    /\ UNCHANGED envVars
    /\ UNCHANGED serviceVars

\* start_worker: server.start_async() returns Err: error!(..); token.cancel()
worker_start_failed ==
    /\ pc # "exited"
    /\ \E u \in units :
         /\ u.name \in Active
         /\ u.via = "tokio_spawn"
         /\ failed' = failed \cup {u.name}
    /\ reports' = Report("worker_start")
    /\ Cancel("task_failed")
    /\ UNCHANGED <<command, wait, pc, now, result, exitCode, run, history,
                   done, waitAt, graceEnd, returnedAt>>
    /\ UNCHANGED connectVars
    /\ UNCHANGED runnerVars
    /\ UNCHANGED envVars
    /\ UNCHANGED serviceVars

\* a unit that observes the cancelled token ends cleanly (a unit that ignores
\* the token never takes this step)
task_completed ==
    /\ pc # "exited"
    /\ token
    /\ \E n \in Active : done' = done \cup {n}
    /\ UNCHANGED <<command, wait, pc, now, result, exitCode, run, history, reports,
                   sstate, token, cause, failed, cancelAt, waitAt, graceEnd, returnedAt>>
    /\ UNCHANGED connectVars
    /\ UNCHANGED runnerVars
    /\ UNCHANGED envVars
    /\ UNCHANGED serviceVars

\* wait_for_shutdown: an external termination signal arrives
external_signal ==
    /\ pc = "wait_for_shutdown"
    /\ sstate = "Running"
    /\ Cancel("signal")
    /\ UNCHANGED <<command, wait, pc, now, result, exitCode, run, history, reports,
                   failed, done, waitAt, graceEnd, returnedAt>>
    /\ UNCHANGED connectVars
    /\ UNCHANGED runnerVars
    /\ UNCHANGED envVars
    /\ UNCHANGED serviceVars

\* wait_for_shutdown sees the cancellation: Draining, the grace timer is armed;
\* the grace period runs from the transition to CancelRequested
begin_draining ==
    /\ pc = "wait_for_shutdown"
    /\ sstate = "CancelRequested"
    /\ sstate' = "Draining"
    /\ graceEnd' = cancelAt + grace
    /\ UNCHANGED <<command, wait, pc, now, result, exitCode, run, history, reports,
                   token, cause, failed, done, cancelAt, waitAt, returnedAt>>
    /\ UNCHANGED connectVars
    /\ UNCHANGED runnerVars
    /\ UNCHANGED envVars
    /\ UNCHANGED serviceVars

\* wait_for_shutdown: every registered task has ended: Terminated
all_tasks_complete ==
    /\ pc = "wait_for_shutdown"
    /\ sstate = "Draining"
    /\ Registered \subseteq failed \cup done
    /\ sstate' = "Terminated"
    /\ returnedAt' = now
    /\ UNCHANGED <<command, wait, pc, now, result, exitCode, run, history, reports,
                   token, cause, failed, done, cancelAt, waitAt, graceEnd>>
    /\ UNCHANGED connectVars
    /\ UNCHANGED runnerVars
    /\ UNCHANGED envVars
    /\ UNCHANGED serviceVars

\* wait_for_shutdown: the grace timer fires: Terminated, whatever is still running
grace_elapsed ==
    /\ pc = "wait_for_shutdown"
    /\ sstate = "Draining"
    /\ now >= graceEnd
    /\ sstate' = "Terminated"
    /\ returnedAt' = now
    /\ UNCHANGED <<command, wait, pc, now, result, exitCode, run, history, reports,
                   token, cause, failed, done, cancelAt, waitAt, graceEnd>>
    /\ UNCHANGED connectVars
    /\ UNCHANGED runnerVars
    /\ UNCHANGED envVars
    /\ UNCHANGED serviceVars

\* how the service run ended, for the record
ServiceOutcome ==
    IF failed # {} THEN "service_failed"
    ELSE IF Registered \subseteq done THEN "clean_shutdown"
    ELSE "shutdown_timeout"

\* `let _ = shutdown.wait_for_shutdown(..).await;`: the result is dropped, the
\* start_* function and main() return
service_exit_code(outcome) == 0

\* wait_for_shutdown has returned: main() returns and the process ends
main_return ==
    /\ pc = "wait_for_shutdown"
    /\ sstate = "Terminated"
    /\ pc' = "exited"
    /\ result' = ServiceOutcome
    /\ exitCode' = service_exit_code(ServiceOutcome)
    /\ UNCHANGED <<command, wait, now, run, history, reports>>
    /\ UNCHANGED connectVars
    /\ UNCHANGED runnerVars
    /\ UNCHANGED envVars
    /\ UNCHANGED serviceVars
    /\ UNCHANGED coordVars

\* ------------------------------------------------------------------ environment
Running == pc \notin {"main", "exited"}

\* timers of the main task that are set and have not fired
Timers ==
    (IF retry /\ pc \in {"attempting", "sleeping"} THEN {deadline} ELSE {})
        \cup (IF pc = "sleeping" THEN {wake} ELSE {})
        \cup (IF pc = "wait_for_shutdown" /\ sstate = "Draining" THEN {graceEnd} ELSE {})

\* wait_for_shutdown is about to act on what it waits for, without delay
WaitDue == pc = "wait_for_shutdown" /\ sstate \in {"CancelRequested", "Terminated"}

\* how far the clock is stepped: past every deadline while migrate connects,
\* a few steps while the runner works, a few steps of a service run
Horizon ==
    IF command # "migrate" THEN ServiceTicks * TickMs
    ELSE IF pc \in {"connected", "migrating"}
         THEN Min({MaxTimeMs, finishedAt + ServiceTicks * TickMs})
    ELSE MaxTimeMs

\* the clock advances, never past a pending timer; beyond the horizon it
\* only moves to the next pending timer; error! and exit(1) follow each other
\* with no await between them
Tick ==
    /\ Running
    /\ pc # "exiting"
    /\ \A t \in Timers : now < t
    /\ ~WaitDue
    /\ IF now < Horizon
       THEN now' = Min({now + TickMs} \cup Timers)
       ELSE /\ Timers # {}
            /\ now' = Min(Timers)
    /\ UNCHANGED <<command, wait, pc, result, exitCode, run, history, reports>>
    /\ UNCHANGED connectVars
    /\ UNCHANGED runnerVars
    /\ UNCHANGED envVars
    /\ UNCHANGED serviceVars
    /\ UNCHANGED coordVars

\* the database changes condition
DbChange ==
    /\ pc \in {"attempting", "sleeping"}
    /\ \E c \in DbConditions \ {db} :
         /\ db' = c
         /\ upSince' = IF c = "up" THEN now ELSE 0
    /\ UNCHANGED <<command, wait, pc, now, result, exitCode, run, history, reports>>
    /\ UNCHANGED connectVars
    /\ UNCHANGED runnerVars
    /\ UNCHANGED serviceVars
    /\ UNCHANGED coordVars

\* the operator runs `migrate` again against the same database
Restart ==
    /\ pc = "exited"
    /\ command = "migrate"
    /\ run < MaxRuns
    /\ run' = run + 1
    /\ command' = "migrate"
    /\ wait' \in WaitValues
    /\ pc' = "main"
    /\ now' = 0
    /\ upSince' = 0
    /\ attempts' = 0
    /\ results' = <<>>
    /\ started' = 0
    /\ wake' = 0
    /\ slept' = 0
    /\ result' = "none"
    /\ finishedAt' = 0
    /\ connection' = "none"
    /\ exitCode' = 0
    /\ recorded' = <<>>
    /\ todo' = <<>>
    /\ attempted' = <<>>
    /\ applied' = <<>>
    /\ pools' = 0
    /\ pool' = 0
    /\ clusterId' = FALSE
    /\ shutdown' = "none"
    /\ units' = {}
    /\ guards' = {}
    /\ sstate' = "none"
    /\ token' = FALSE
    /\ cause' = "none"
    /\ failed' = {}
    /\ done' = {}
    /\ cancelAt' = 0
    /\ waitAt' = 0
    /\ graceEnd' = 0
    /\ returnedAt' = 0
    /\ reports' = <<>>
    /\ UNCHANGED <<db, ledger, history>>

Next ==
    \/ main_migrate
    \/ connect_Ok
    \/ connect_Err
    \/ connect_continue
    \/ timeout_elapsed
    \/ run_async
    \/ apply_migration
    \/ connection_closed
    \/ connection_Err
    \/ main_exit
    \/ migrate_Ok
    \/ create_pool
    \/ pool_get
    \/ query_one
    \/ cp_shutdown_new
    \/ cp_admin
    \/ cp_api
    \/ cp_compiler
    \/ controller_new_slow
    \/ cp_controller
    \/ worker_from_env
    \/ worker_admin
    \/ worker_spawn
    \/ node_start_server
    \/ node_admin
    \/ task_failed
    \/ worker_start_failed
    \/ task_completed
    \/ external_signal
    \/ begin_draining
    \/ all_tasks_complete
    \/ grace_elapsed
    \/ main_return
    \/ Tick
    \/ DbChange
    \/ Restart

Spec == Init /\ [][Next]_vars

\* ==================================================================== claims
Last(s) == s[Len(s)]

\* migrate() has returned to main(): main is about to end the process or has
Ended == pc \in {"exiting", "exited"}

\* the process, once ended, has the exit code c
ExitCodeIs(c) == pc = "exited" => exitCode = c

IsMigrate == command = "migrate"

Transients == {i \in 1..Len(results) : results[i] = "transient"}

\* C1: in connect(), an attempt that fails with an authentication error is the
\* last attempt: no later attempt is started, no backoff sleep follows it, the
\* run ends at once (same clock value) with a connection failure and exit code
\* 1, with or without retry and whatever number of transient failures came
\* before; if it is the first attempt, exactly one attempt was made.
C1_AuthenticationErrorIsLastAttempt ==
    \A i \in 1..Len(results) :
        results[i] = "auth" =>
            /\ i = Len(results)
            /\ attempts = i
            /\ slept = i - 1
            /\ Ended
            /\ result = "connect_error"
            /\ ExitCodeIs(1)
            /\ finishedAt = now

\* C1 witness: with retry enabled, an authentication failure after at least one
\* transient failure
C1_Witness ==
    /\ IsMigrate
    /\ wait.some
    /\ Len(results) >= 2
    /\ results[1] = "transient"
    /\ Last(results) = "auth"

\* C2: with a deadline of D seconds and only transient failures, the connect
\* phase ends with a timeout failure at a time t with D <= t < D + 500ms: the
\* phase is never still in progress after D, a timeout is never reported
\* outside the window, and a run whose attempts all failed transiently ends
\* in the timeout failure and nothing else.
C2_TimeoutAtDeadline ==
    (IsMigrate /\ wait.some) =>
        /\ result = "timeout" =>
              /\ wait.secs * 1000 <= finishedAt
              /\ finishedAt < wait.secs * 1000 + 500
        /\ pc \in {"attempting", "sleeping"} => now <= wait.secs * 1000
        /\ (pc = "exited" /\ Transients = 1..Len(results)) =>
              /\ result = "timeout"
              /\ exitCode = 1

\* C2 witness: a timeout after two transient failures, with a deadline of at
\* least one second
C2_Witness ==
    /\ IsMigrate
    /\ wait.some
    /\ wait.secs >= 1
    /\ result = "timeout"
    /\ Len(results) >= 2

\* C3: without a deadline (connect(false)) exactly one attempt is made: its
\* failure, transient or authentication, ends the run at once with a
\* connection failure, there is no sleep and no second attempt, and a timeout
\* failure is never produced.
C3_NoDeadlineSingleAttempt ==
    (IsMigrate /\ ~wait.some) =>
        /\ attempts <= 1
        /\ pc # "main" => attempts = 1
        /\ slept = 0
        /\ pc # "sleeping"
        /\ result # "timeout"
        /\ (results # <<>> /\ results[1] # "ok") =>
              /\ Ended
              /\ result = "connect_error"
              /\ ExitCodeIs(1)
              /\ finishedAt = now

\* C3 witness: the single attempt failed transiently and the failure surfaced
C3_Witness ==
    /\ IsMigrate
    /\ ~wait.some
    /\ results = <<"transient">>
    /\ result = "connect_error"

\* C4 as stated: with a deadline, transient failures never surface as a
\* connection failure, each is followed by a 500ms sleep and a retry, and a
\* database that became reachable before the deadline elapsed means that
\* connect returns Connected.  The last part is stated for the case that
\* leaves the attempt's own duration out of it: the database became reachable
\* after a transient failure, before the deadline, and stayed reachable, and
\* connect was in its backoff sleep when the phase ended; the claim says the
\* phase did not end in the timeout.
C4_ReachableBeforeDeadlineConnects ==
    (IsMigrate /\ wait.some) =>
        /\ result = "connect_error" => Last(results) = "auth"
        /\ slept = Cardinality(Transients)
        /\ (db = "up" /\ 0 < upSince /\ upSince < wait.secs * 1000 /\ finishedAt < wake) =>
              result # "timeout"

\* C4 amended: with a deadline, transient failures never surface as a
\* connection failure: each is followed by one 500ms sleep and then a further
\* attempt; the connect phase ends only as Connected, as the failure of an
\* authentication error, or as a timeout; an attempt that succeeds ends the
\* phase as Connected and no further attempt is made.
C4_TransientFailuresAreRetried ==
    (IsMigrate /\ wait.some) =>
        /\ result = "connect_error" => (results # <<>> /\ Last(results) = "auth")
        /\ slept = Cardinality(Transients)
        /\ \A i \in Transients :
              \/ attempts > i
              \/ (pc = "sleeping" /\ wake <= now + 500 /\ wake >= started + 500)
              \/ result = "timeout"
        /\ result \in {"none", "connect_error", "timeout", "ok", "migration_error"}
        /\ result \in {"ok", "migration_error"} => (results # <<>> /\ Last(results) = "ok")
        /\ \A i \in 1..Len(results) :
              results[i] = "ok" =>
                  /\ i = Len(results)
                  /\ attempts = i
                  /\ pc \in {"connected", "migrating", "exiting", "exited"}
                  /\ result \notin {"timeout", "connect_error"}

\* C4 witness: Connected on the third attempt, after two transient failures
C4_Witness ==
    /\ IsMigrate
    /\ wait.some
    /\ Len(results) = 3
    /\ results[1] = "transient"
    /\ results[2] = "transient"
    /\ results[3] = "ok"
    /\ slept = 2
StrictlyAscending(q) == \A i \in 1..Len(q) : \A j \in 1..Len(q) : i < j => q[i] < q[j]

\* versions above every version of the ledger led
Above(led) == {v \in migrations : \A r \in SeqToSet(led) : v > r}

\* C5: two runs of the migration runner in succession against the same ledger
\* and the same definitions: the first, having run to its end with migrations
\* pending, reports a non-empty applied list; the second reports an empty one
\* and leaves the ledger as the first run left it.
C5_SecondRunAppliesNothing ==
    \A i \in 1..Len(history) :
        history[i].result = "ok" =>
            /\ Above(history[i].before) # {} => history[i].applied # <<>>
            /\ i < Len(history) =>
                  /\ history[i + 1].applied = <<>>
                  /\ history[i + 1].ledger = history[i].ledger

\* C5 witness: a first run that applied migrations, then a second run
C5_Witness ==
    /\ Len(history) >= 2
    /\ history[1].result = "ok"
    /\ history[1].applied # <<>>
    /\ history[2].result = "ok"

\* C6: the runner applies exactly the migrations whose version exceeds the
\* highest recorded version, in strictly ascending order (a run that fails
\* has applied an initial part of them), and no version is ever recorded
\* twice: the ledger stays strictly ascending over any sequence of runs.
C6_AppliesExactlyNewerVersionsOnce ==
    /\ StrictlyAscending(ledger)
    /\ \A i \in 1..Len(ledger) : \A j \in 1..Len(ledger) : ledger[i] = ledger[j] => i = j
    /\ (IsMigrate /\ pc \in {"migrating", "exiting", "exited"}
           /\ results # <<>> /\ Last(results) = "ok") =>
          /\ ledger = recorded \o applied
          /\ StrictlyAscending(applied)
          /\ StrictlyAscending(attempted)
          /\ SeqToSet(applied) \subseteq Above(recorded)
          /\ SeqToSet(applied) \cap SeqToSet(recorded) = {}
          /\ \A v \in Above(recorded) : \A a \in SeqToSet(applied) :
                v < a => v \in SeqToSet(applied)
          /\ result = "ok" => SeqToSet(applied) = Above(recorded)

\* C6 witness: a run that found versions recorded and applied the newer ones
C6_Witness ==
    /\ IsMigrate
    /\ result = "ok"
    /\ recorded # <<>>
    /\ applied # <<>>

\* C7: when applying a migration fails, no migration with a higher version is
\* attempted in that batch, migrate() returns the migration error and the
\* process exits with code 1; the migrations applied earlier in the batch
\* stay recorded.
C7_MigrationFailureStopsBatch ==
    IsMigrate =>
        /\ Len(attempted) <= Len(applied) + 1
        /\ \A i \in 1..Len(applied) : attempted[i] = applied[i]
        /\ Len(attempted) = Len(applied) + 1 =>
              /\ result = "migration_error"
              /\ Ended
              /\ ExitCodeIs(1)
              /\ Last(attempted) \notin SeqToSet(ledger)
              /\ \A v \in migrations : v > Last(attempted) => v \notin SeqToSet(attempted)
        /\ result = "migration_error" =>
              /\ Ended
              /\ ExitCodeIs(1)
              /\ \A v \in SeqToSet(applied) : v \in SeqToSet(ledger)
              /\ ledger = recorded \o applied

\* C7 witness: a batch that applied one migration and failed on the next
C7_Witness ==
    /\ IsMigrate
    /\ result = "migration_error"
    /\ applied # <<>>
    /\ exitCode = 1
Names == {u.name : u \in units}

UnitsNamed(n) == {u \in units : u.name = n}

\* the units each service kind stands for
Implied(cmd) ==
    CASE cmd = "api" -> {"api"}
      [] cmd = "compiler" -> {"compiler"}
      [] cmd = "controller" -> {"controller"}
      [] cmd = "cluster" -> {"api", "compiler", "controller"}
      [] cmd = "worker" -> {"worker"}
      [] cmd = "node" -> {"node"}
      [] OTHER -> {}

\* C8: for every service kind, dispatch starts exactly the units the kind
\* stands for and the admin task: no other unit is ever started, none is
\* started twice, and when dispatch reaches wait_for_shutdown all of them and
\* the admin task have been started.
C8_DispatchStartsImpliedUnits ==
    /\ Names \subseteq Implied(command) \cup {"admin"}
    /\ \A n \in Names : Cardinality(UnitsNamed(n)) = 1
    /\ pc = "wait_for_shutdown" => Names = Implied(command) \cup {"admin"}

\* C8 witness: the dispatch of All has reached wait_for_shutdown with its
\* three units and the admin task started
C8_Witness ==
    /\ command = "cluster"
    /\ pc = "wait_for_shutdown"
    /\ Names = {"admin", "api", "compiler", "controller"}

\* C9 as stated: the dispatch of All creates exactly one pool and each of the
\* three started units, api, compiler and controller, holds that pool's
\* handle; no process ever has more than one pool.
C9_AllThreeUnitsShareThePool ==
    /\ pools <= 1
    /\ (command = "cluster" /\ pc = "wait_for_shutdown") =>
          /\ pools = 1
          /\ \A u \in units : u.name \in {"api", "compiler", "controller"} => u.pool = pool
          /\ pool # 0

\* C9 amended: the dispatch of All creates exactly one pool; the two units
\* that take a pool, api and controller, hold that pool's handle, and the
\* compiler unit is started without a pool handle; no process creates more
\* than one pool.
C9_OnePoolSharedByApiAndController ==
    /\ pools <= 1
    /\ \A u \in units : u.pool # 0 => (u.pool = pool /\ u.name \in {"api", "controller"})
    /\ command \notin CPServices => pools = 0
    /\ (command = "cluster" /\ pc = "wait_for_shutdown") =>
          /\ pools = 1
          /\ pool = 1
          /\ \A u \in units : u.name \in {"api", "controller"} => u.pool = pool
          /\ \A u \in units : u.name = "compiler" => u.pool = 0

\* C9 witness: All dispatched, api and controller holding the one pool
C9_Witness ==
    /\ command = "cluster"
    /\ pc = "wait_for_shutdown"
    /\ pools = 1
    /\ {u.pool : u \in UnitsNamed("api") \cup UnitsNamed("controller")} = {1}

\* C10: on the control-plane paths (api, compiler, controller, cluster) the
\* pool has been built, its first connection obtained and the cluster
\* identity queried, all successfully, before the first task, admin or
\* service unit, is spawned: whenever a task exists, db_pool() has returned.
C10_PoolEstablishedBeforeFirstTask ==
    (command \in CPServices /\ (units # {} \/ guards # {} \/ shutdown # "none")) =>
        /\ pools = 1
        /\ pool = 1
        /\ clusterId
        /\ pc \notin {"main", "pool_get", "query_one"}
        /\ result \notin {"pool_error", "connection_error", "panic"}

\* C10 witness: a control-plane process whose first task, admin, was spawned
C10_Witness ==
    /\ command \in CPServices
    /\ units = {[name |-> "admin", via |-> "spawn_task", pool |-> 0]}
    /\ clusterId

\* ---------------------------------------------------------------------- C11
\* C11: once any started unit has failed (a spawn_task task, a guarded unit,
\* or the worker server of start_worker), the shared cancellation token is
\* set, so no sibling is running with the token unset after a failure.
C11_FailureCancelsTheToken ==
    failed # {} => token

\* the worker server failed to start, the admin task is still running, and
\* the token it observes is set
C11_Witness ==
    /\ command = "worker"
    /\ "worker" \in failed
    /\ "admin" \in Active
    /\ token

\* ---------------------------------------------------------------------- C12
\* every registered task has ended
AllEnded == Registered \subseteq failed \cup done

\* C12 as stated: wait_for_shutdown returns within the grace period of the
\* transition to CancelRequested, and returns before that only when all
\* registered tasks have completed.
C12_ReturnsWithinGraceOfCancelRequested ==
    sstate = "Terminated" =>
        /\ returnedAt <= cancelAt + GraceSecs * MsPerSec
        /\ returnedAt < cancelAt + GraceSecs * MsPerSec => AllEnded

\* C12 amended: a wait_for_shutdown that is called within 30 seconds of the
\* transition to CancelRequested returns within those 30 seconds, even if a
\* registered task never completes; one that is called later returns at once.
\* While it drains the clock is never past that bound, and it never returns
\* earlier than 30 seconds after the transition unless all registered tasks
\* have ended.
C12_ReturnsWithinGraceOrAtOnce ==
    /\ (pc = "wait_for_shutdown" /\ sstate = "Draining") =>
           /\ graceEnd = cancelAt + GraceSecs * MsPerSec
           /\ now <= Max({graceEnd, waitAt})
    /\ sstate = "Terminated" =>
           /\ returnedAt <= Max({cancelAt + GraceSecs * MsPerSec, waitAt})
           /\ returnedAt < cancelAt + GraceSecs * MsPerSec => AllEnded

\* a wait_for_shutdown in progress was cancelled, a registered task ignored
\* the token, and the wait returned when the grace period ran out
C12_Witness ==
    /\ sstate = "Terminated"
    /\ waitAt <= cancelAt
    /\ ~AllEnded
    /\ returnedAt = cancelAt + GraceSecs * MsPerSec

\* ---------------------------------------------------------------------- C13
\* C13: the shutdown state only moves Running -> CancelRequested -> Draining
\* -> Terminated. CancelRequested is entered only from Running, and only
\* because a registered task failed or an external signal arrived; Terminated
\* is entered only when all registered tasks have ended or the grace period
\* has elapsed; once Terminated the state never changes.
C13_ShutdownStateChain ==
    [][sstate' # sstate =>
         \/ /\ sstate = "none"
            /\ sstate' = "Running"
         \/ /\ sstate = "Running"
            /\ sstate' = "CancelRequested"
            /\ \/ /\ cause' = "task_failed"
                  /\ failed' \ failed # {}
                  /\ failed' \ failed \subseteq Registered
               \/ /\ cause' = "signal"
                  /\ failed' = failed
         \/ /\ sstate = "CancelRequested"
            /\ sstate' = "Draining"
         \/ /\ sstate = "Draining"
            /\ sstate' = "Terminated"
            /\ AllEnded \/ now >= graceEnd]_vars

\* a coordinator that went through the whole chain after an external signal
\* and terminated before its grace period ran out
C13_Witness ==
    /\ sstate = "Terminated"
    /\ cause = "signal"
    /\ returnedAt < graceEnd
    /\ pc = "exited"

\* ---------------------------------------------------------------------- C14
\* the outcomes C14 names as fatal
FatalOutcomes == {"migration_error", "connect_error", "timeout", "pool_error",
                  "connection_error", "service_failed"}

\* C14: a process that has ended has exit code 0 when it shut down cleanly or
\* migrated successfully, and exit code 1 on every fatal outcome: migration
\* failure, connection failure, connect timeout, pool or connection creation
\* failure, and a service unit that failed to start or crashed.
C14_ExitCodeFollowsOutcome ==
    pc = "exited" =>
        /\ result \in {"ok", "clean_shutdown"} => exitCode = 0
        /\ result \in FatalOutcomes => exitCode = 1

\* ---------------------------------------------------------------------- C15
\* C15: in every state where a control-plane process has started a task, the
\* cluster identity has been published; and a process whose identity query
\* failed has ended there: no identity published, no pool returned, no
\* coordinator created, no admin or service task spawned.
C15_IdentityQueryFailureAborts ==
    /\ (command \in CPServices /\ (units # {} \/ shutdown # "none")) => clusterId
    /\ result = "panic" =>
           /\ pc = "exited"
           /\ ~clusterId
           /\ pool = 0
           /\ shutdown = "none"
           /\ units = {}
           /\ guards = {}

\* a control-plane process whose pool was created and whose identity query
\* failed
C15_Witness ==
    /\ command \in CPServices
    /\ pools = 1
    /\ result = "panic"
    /\ exitCode = PanicExitCode

\* ---------------------------------------------------------------------- C16
\* C16 as stated: every unit the dispatcher has started was started through
\* spawn_task.
C16_EveryUnitStartedThroughSpawnTask ==
    \A u \in units : u.via = "spawn_task"

\* C16 amended: every started unit is registered with the coordinator, by one
\* of three mechanisms: admin, api and compiler are spawn_task tasks; the
\* controller and the node are started by their own start function holding a
\* guard; the worker server is run by a bare tokio::spawn and holds a guard.
C16_EveryUnitRegisteredByTaskOrGuard ==
    \A u \in units :
        /\ u.name \in Registered
        /\ u.name \in {"admin", "api", "compiler"} => u.via = "spawn_task"
        /\ u.name \in {"controller", "node"} => u.via = "guard" /\ u.name \in guards
        /\ u.name = "worker" => u.via = "tokio_spawn" /\ u.name \in guards

\* a worker process with both of its units started: the admin task through
\* spawn_task, the worker server through tokio::spawn with its guard
C16_Witness ==
    /\ command = "worker"
    /\ [name |-> "admin", via |-> "spawn_task", pool |-> 0] \in units
    /\ [name |-> "worker", via |-> "tokio_spawn", pool |-> 0] \in units
    /\ "worker" \in guards

\* ---------------------------------------------------------------------- C17
\* C17: the coordinator's registered set never loses a member, and once
\* wait_for_shutdown has been entered it does not change at all: every
\* spawn_task and guard registration happens during startup.
C17_RegisteredSetFrozenOnceWaiting ==
    [][/\ Registered \subseteq Registered'
       /\ pc \in {"wait_for_shutdown", "exited"} => Registered' = Registered]_vars

\* a cluster process that registered its four units during startup and is
\* draining inside wait_for_shutdown
C17_Witness ==
    /\ pc = "wait_for_shutdown"
    /\ sstate = "Draining"
    /\ Registered = {"admin", "api", "compiler", "controller"}
    /\ now > waitAt

\* ---------------------------------------------------------------------- C18
\* the fatal outcomes of the connection and migration paths
ConnectionAndMigrationFailures ==
    {"connect_error", "timeout", "pool_error", "connection_error", "migration_error"}

\* the reports written for the failure of the given kind
ReportsOf(kind) == {i \in 1..Len(reports) : reports[i].kind = kind}

\* C18: a process that ended in a connection failure, a connect timeout, a
\* pool or connection creation failure or a migration failure has reported
\* that failure exactly once, in a message that carries both the underlying
\* cause and the description of the database target.
C18_FailureReportedOnceWithCauseAndTarget ==
    (pc = "exited" /\ result \in ConnectionAndMigrationFailures) =>
        /\ Cardinality(ReportsOf(result)) = 1
        /\ \A i \in ReportsOf(result) : {"cause", "target"} \subseteq reports[i].parts

\* ---------------------------------------------------------------------- C19
\* the ledger as the process found it: what the last runner run left behind
LedgerAtStart == IF history = <<>> THEN <<>> ELSE Last(history).ledger

\* C19: a migrate process whose connect phase ended in a failure (a refused
\* or failed authentication, a single failed attempt, or the deadline, also
\* with an attempt in flight) never invoked the runner: no batch was computed,
\* no migration attempted or applied, and the ledger is as it was found.
C19_ConnectFailureLeavesLedgerUntouched ==
    (IsMigrate /\ result \in {"connect_error", "timeout"}) =>
        /\ Ended
        /\ todo = <<>>
        /\ attempted = <<>>
        /\ applied = <<>>
        /\ ledger = LedgerAtStart

\* a second migrate run against a migrated database timed out with an
\* attempt still in flight
C19_Witness ==
    /\ IsMigrate
    /\ result = "timeout"
    /\ attempts > Len(results)
    /\ ledger # <<>>
    /\ ledger = LedgerAtStart

\* ---------------------------------------------------------------------- C20
\* the connect phase of this run obtained a connection
Connected == results # <<>> /\ Last(results) = "ok"

\* C20: --wait bounds the connect phase only. A migrate process that obtained
\* its connection never ends in the timeout: while the runner works no result
\* is produced, whatever the clock shows, and the run ends as a success or as
\* a migration failure.
C20_NoTimeoutOnceConnected ==
    IsMigrate =>
        /\ pc \in {"connected", "migrating"} => result = "none"
        /\ Connected => result \in {"none", "ok", "migration_error"}
        /\ result = "timeout" => ~Connected

\* a migrate --wait run that connected within its deadline, applied
\* migrations, and completed after the deadline had passed
C20_Witness ==
    /\ IsMigrate
    /\ retry
    /\ Connected
    /\ finishedAt <= deadline
    /\ result = "ok"
    /\ applied # <<>>
    /\ now > deadline
====
